---------------------------- MODULE Spec2Model ----------------------------
(***************************************************************************)
(* BudgetAI (src/ai_model.py): the process-wide classifier handle, its     *)
(* persisted artifact budget_ai_model.pkl, and the callers that train it   *)
(* and ask it for predictions (src/app.py runs them on request threads).   *)
(*                                                                         *)
(* Amounts are whole numbers; percentages are floored integer percents.    *)
(* The fitted RandomForestClassifier is library code: it is represented    *)
(* by the split points that separate the 25-row training table on its      *)
(* first feature, which reproduces the label of every training row.        *)
(***************************************************************************)
EXTENDS Integers, Sequences, FiniteSets, TLC

(***************************************************************************)
(* Bounds of the model.                                                    *)
(***************************************************************************)
NumCallers == 2
MaxRestarts == 1
MaxTx == 2

Callers == 1..NumCallers

None == [ none |-> TRUE ]
NoError == ""

(***************************************************************************)
(* create_training_data: the fixed table.                                  *)
(***************************************************************************)
X_train ==
  << <<-50, 45, 30, 20, 150>>, <<-100, 50, 35, 25, 200>>, <<-30, 40, 28, 18, 130>>,
     <<-80, 48, 32, 22, 180>>, <<-200, 55, 40, 30, 250>>,
     <<5, 38, 22, 18, 95>>, <<8, 35, 20, 15, 92>>, <<10, 40, 25, 20, 90>>,
     <<12, 36, 23, 16, 88>>, <<15, 42, 24, 19, 85>>,
     <<20, 30, 15, 12, 80>>, <<25, 28, 18, 14, 75>>, <<22, 32, 16, 13, 78>>,
     <<28, 29, 17, 11, 72>>, <<24, 31, 14, 15, 76>>,
     <<35, 25, 12, 10, 65>>, <<38, 23, 10, 9, 62>>, <<32, 27, 13, 11, 68>>,
     <<40, 24, 11, 8, 60>>, <<36, 26, 9, 12, 64>>,
     <<45, 20, 8, 7, 55>>, <<50, 18, 6, 6, 50>>, <<48, 22, 7, 5, 52>>,
     <<42, 19, 10, 8, 58>>, <<55, 17, 5, 4, 45>> >>

y_train ==
  << 0, 0, 0, 0, 0,  1, 1, 1, 1, 1,  2, 2, 2, 2, 2,  3, 3, 3, 3, 3,  4, 4, 4, 4, 4 >>

SetMax(S) == CHOOSE x \in S : \A y \in S : y <= x
SetMin(S) == CHOOSE x \in S : \A y \in S : x <= y

RowsOf(label) == { i \in 1..Len(y_train) : y_train[i] = label }

(***************************************************************************)
(* RandomForestClassifier(...): the unfitted estimator of train_model.     *)
(***************************************************************************)
NewForest ==
  [ n_estimators |-> 50, max_depth |-> 6, min_samples_split |-> 2,
    random_state |-> 42, estimators_ |-> <<>> ]

(***************************************************************************)
(* model.fit(X_train, y_train): deterministic for the fixed random_state.  *)
(* The fitted state is the doubled midpoint between the savings rates of   *)
(* each pair of adjacent tiers of the table.                               *)
(***************************************************************************)
SplitPoint(k) ==
  SetMax({ X_train[i][1] : i \in RowsOf(k - 1) }) + SetMin({ X_train[i][1] : i \in RowsOf(k) })

Fit(m) == [ m EXCEPT !.estimators_ = [ k \in 1..4 |-> SplitPoint(k) ] ]

IsFitted(m) == m # None /\ Len(m.estimators_) > 0

(***************************************************************************)
(* model.predict(features)[0] on a fitted model.                           *)
(***************************************************************************)
Predict(m, features) ==
  Cardinality({ k \in 1..Len(m.estimators_) : 2 * features[1] > m.estimators_[k] })

(***************************************************************************)
(* pickle.dump / pickle.load: the artifact is a sequence of numbers, the   *)
(* four constructor parameters, the number of fitted entries, the entries. *)
(***************************************************************************)
HeaderLen == 5

Dumps(m) ==
  << m.n_estimators, m.max_depth, m.min_samples_split, m.random_state,
     Len(m.estimators_) >> \o m.estimators_

WellFormed(bytes) ==
  /\ Len(bytes) >= HeaderLen
  /\ Len(bytes) = HeaderLen + bytes[HeaderLen]

Loads(bytes) ==
  [ n_estimators |-> bytes[1], max_depth |-> bytes[2], min_samples_split |-> bytes[3],
    random_state |-> bytes[4],
    estimators_ |-> [ k \in 1..bytes[HeaderLen] |-> bytes[HeaderLen + k] ] ]

Absent == [ exists |-> FALSE, bytes |-> <<>> ]
File(bytes) == [ exists |-> TRUE, bytes |-> bytes ]

(***************************************************************************)
(* Transactions (src/app.py, class Transaction) and analyze_spending.      *)
(***************************************************************************)
Categories ==
  { "Food", "Transport", "Entertainment", "Bills", "Shopping", "Healthcare",
    "Education", "Other" }

Tx(type, category, amount) == [ type |-> type, category |-> category, amount |-> amount ]

(* the loop without its else branch: unrecognised categories are dropped *)
RECURSIVE Accumulate_DropsUnknown(_, _)
Accumulate_DropsUnknown(spending, transactions) ==
  IF transactions = <<>> THEN spending
  ELSE LET t == Head(transactions)
           next == IF t.type = "expense" /\ t.category \in DOMAIN spending
                   THEN [ spending EXCEPT ![t.category] = @ + t.amount ]
                   ELSE spending
       IN Accumulate_DropsUnknown(next, Tail(transactions))

RECURSIVE Accumulate(_, _)
Accumulate(spending, transactions) ==
  IF transactions = <<>> THEN spending
  ELSE LET t == Head(transactions)
           next == IF t.type = "expense"
                   THEN IF t.category \in DOMAIN spending
                        THEN [ spending EXCEPT ![t.category] = @ + t.amount ]
                        ELSE [ spending EXCEPT !["Other"] = @ + t.amount ]
                   ELSE spending
       IN Accumulate(next, Tail(transactions))

(* the zero-income branch reporting "nothing saved, nothing spent" *)
analyze_spending_ZeroFallback(transactions, total_income, total_expenses) ==
  LET spending_by_category == Accumulate([ c \in Categories |-> 0 ], transactions)
      balance == total_income - total_expenses
  IN [ spending |-> spending_by_category,
       total_income |-> total_income,
       total_expenses |-> total_expenses,
       balance |-> balance,
       savings_rate |-> IF total_income > 0 THEN (balance * 100) \div total_income ELSE 0,
       expense_ratio |-> IF total_income > 0 THEN (total_expenses * 100) \div total_income ELSE 0,
       food_pct |-> IF total_income > 0
                    THEN (spending_by_category["Food"] * 100) \div total_income ELSE 0,
       transport_pct |-> IF total_income > 0
                         THEN (spending_by_category["Transport"] * 100) \div total_income ELSE 0,
       entertainment_pct |-> IF total_income > 0
                             THEN (spending_by_category["Entertainment"] * 100) \div total_income
                             ELSE 0 ]

analyze_spending(transactions, total_income, total_expenses) ==
  LET spending_by_category == Accumulate([ c \in Categories |-> 0 ], transactions)
      balance == total_income - total_expenses
  IN [ spending |-> spending_by_category,
       total_income |-> total_income,
       total_expenses |-> total_expenses,
       balance |-> balance,
       savings_rate |-> IF total_income > 0 THEN (balance * 100) \div total_income ELSE -100,
       expense_ratio |-> IF total_income > 0 THEN (total_expenses * 100) \div total_income ELSE 100,
       food_pct |-> IF total_income > 0
                    THEN (spending_by_category["Food"] * 100) \div total_income ELSE 0,
       transport_pct |-> IF total_income > 0
                         THEN (spending_by_category["Transport"] * 100) \div total_income ELSE 0,
       entertainment_pct |-> IF total_income > 0
                             THEN (spending_by_category["Entertainment"] * 100) \div total_income
                             ELSE 0 ]

Features(analysis) ==
  << analysis.savings_rate, analysis.food_pct, analysis.entertainment_pct,
     analysis.transport_pct, analysis.expense_ratio >>

RECURSIVE SumAmounts(_, _)
SumAmounts(transactions, type) ==
  IF transactions = <<>> THEN 0
  ELSE (IF Head(transactions).type = type THEN Head(transactions).amount ELSE 0)
       + SumAmounts(Tail(transactions), type)

RECURSIVE SumOver(_, _)
SumOver(f, S) ==
  IF S = {} THEN 0
  ELSE LET c == CHOOSE x \in S : TRUE IN f[c] + SumOver(f, S \ {c})

SumValues(f) == SumOver(f, DOMAIN f)

(***************************************************************************)
(* generate_suggestions raises ZeroDivisionError where the tier-1 branch   *)
(* divides by total_income.                                                *)
(***************************************************************************)
SuggestionsRaise(prediction, analysis) ==
  /\ prediction = 1
  /\ analysis.total_income = 0
  /\ \/ analysis.spending["Food"] * 100 > analysis.total_income * 25
     \/ analysis.spending["Entertainment"] * 100 > analysis.total_income * 10

(***************************************************************************)
(* generate_suggestions.  A tip is the tag of its template and the amount  *)
(* interpolated into it; where the template shows a fraction of an amount  *)
(* (10% of it, 60% of the balance) the tip carries the amount times that   *)
(* percentage, i.e. the value in hundredths.  The order of CategoryOrder   *)
(* is the insertion order of the spending dict, which max() walks.         *)
(***************************************************************************)
Tip(tag, amount) == [ tag |-> tag, amount |-> amount ]

Abs(x) == IF x < 0 THEN -x ELSE x

Percent(part, whole) ==
  IF whole > 0 THEN (part * 100) \div whole ELSE -((part * 100) \div (-whole))

When(condition, tips) == IF condition THEN tips ELSE <<>>

CategoryOrder ==
  << "Food", "Transport", "Entertainment", "Bills", "Shopping", "Healthcare",
     "Education", "Other" >>

(* max(spending.items(), key=lambda x: x[1]): the first item of the largest value *)
top_category(spending) ==
  LET i == CHOOSE i \in 1..Len(CategoryOrder) :
             /\ \A j \in 1..Len(CategoryOrder) : spending[CategoryOrder[j]] <= spending[CategoryOrder[i]]
             /\ \A j \in 1..(i - 1) : spending[CategoryOrder[j]] < spending[CategoryOrder[i]]
  IN CategoryOrder[i]

Tips(savings, investment) ==
  [ raised |-> NoError, savings |-> savings, investment |-> investment ]

TipsRaised(exception) ==
  [ raised |-> exception, savings |-> <<>>, investment |-> <<>> ]

(* the category thresholds compared with >= instead of > *)
critical_tips_AtLeast(analysis) ==
  LET spending == analysis.spending
      total_income == analysis.total_income
  IN Tips(
       << Tip("urgent", 0), Tip("current_status", analysis.balance), Tip("immediate_actions", 0) >>
       \o When(spending["Food"] * 100 >= total_income * 30, << Tip("food", spending["Food"]) >>)
       \o When(spending["Entertainment"] * 100 >= total_income * 15,
               << Tip("entertainment", spending["Entertainment"]) >>)
       \o When(spending["Shopping"] * 100 >= total_income * 15,
               << Tip("shopping", spending["Shopping"]) >>)
       \o When(spending["Transport"] * 100 >= total_income * 15,
               << Tip("transport", spending["Transport"]) >>)
       \o << Tip("goal", Abs(analysis.balance)) >>,
       << Tip("no_investments", 0), Tip("priority_steps", 0), Tip("step_1", 0),
          Tip("step_2", 0), Tip("step_3", 0), Tip("step_4", 0), Tip("step_5", 500) >>)

critical_tips(analysis) ==
  LET spending == analysis.spending
      total_income == analysis.total_income
  IN Tips(
       << Tip("urgent", 0), Tip("current_status", analysis.balance), Tip("immediate_actions", 0) >>
       \o When(spending["Food"] * 100 > total_income * 30, << Tip("food", spending["Food"]) >>)
       \o When(spending["Entertainment"] * 100 > total_income * 15,
               << Tip("entertainment", spending["Entertainment"]) >>)
       \o When(spending["Shopping"] * 100 > total_income * 15,
               << Tip("shopping", spending["Shopping"]) >>)
       \o When(spending["Transport"] * 100 > total_income * 15,
               << Tip("transport", spending["Transport"]) >>)
       \o << Tip("goal", Abs(analysis.balance)) >>,
       << Tip("no_investments", 0), Tip("priority_steps", 0), Tip("step_1", 0),
          Tip("step_2", 0), Tip("step_3", 0), Tip("step_4", 0), Tip("step_5", 500) >>)

needs_improvement_tips(analysis) ==
  LET spending == analysis.spending
      total_income == analysis.total_income
      food == spending["Food"] * 100 > total_income * 25
      entertainment == spending["Entertainment"] * 100 > total_income * 10
  IN IF (food \/ entertainment) /\ total_income = 0
     THEN TipsRaised("ZeroDivisionError")
     ELSE Tips(
       << Tip("low_savings", analysis.balance), Tip("target", 0) >>
       \o When(food,
               << Tip("food", Percent(spending["Food"], total_income)),
                  Tip("food_meal_prep", spending["Food"] * 20),
                  Tip("food_pack_lunch", 0), Tip("food_bulk", 0) >>)
       \o When(entertainment,
               << Tip("entertainment", Percent(spending["Entertainment"], total_income)),
                  Tip("entertainment_one_subscription", 0), Tip("entertainment_free", 0),
                  Tip("entertainment_savings", spending["Entertainment"] * 30) >>)
       \o When(spending["Shopping"] * 100 > total_income * 15,
               << Tip("shopping", spending["Shopping"]), Tip("shopping_wait", 0),
                  Tip("shopping_unsubscribe", 0) >>),
       << Tip("start_small", analysis.balance),
          Tip("emergency_fund", analysis.total_expenses * 3),
          Tip("recurring_deposit", 1000), Tip("ppf", 500), Tip("sip_later", 1000) >>)

moderate_tips(analysis) ==
  LET spending == analysis.spending
      total_income == analysis.total_income
  IN Tips(
       << Tip("decent_progress", analysis.balance), Tip("next_goal", 30) >>
       \o When(spending["Food"] * 100 > total_income * 20,
               << Tip("optimize_food", spending["Food"] * 15) >>)
       \o When(spending["Transport"] * 100 > total_income * 10,
               << Tip("transport", spending["Transport"]) >>)
       \o << Tip("rule_50_30_20", 0) >>,
       << Tip("growing_portfolio", analysis.balance),
          Tip("emergency_fund", analysis.total_expenses * 6),
          Tip("sip", 2500), Tip("ppf", 3000), Tip("fixed_deposit", 10000),
          Tip("health_insurance", 0) >>)

(* the highest category by the smallest value instead of the largest *)
good_tips_MinCategory(analysis) ==
  LET spending == analysis.spending
      total_income == analysis.total_income
      total_spending == SumValues(spending)
      top == CHOOSE c \in DOMAIN spending : \A d \in DOMAIN spending : spending[c] <= spending[d]
  IN Tips(
       << Tip("strong_finances", analysis.balance), Tip("ahead_of_70", 0) >>
       \o When(total_spending > 0 /\ spending[top] * 100 > total_income * 15,
               << [ tag |-> "optimization", amount |-> spending[top], category |-> top ],
                  Tip("optimization_saves", spending[top] * 10) >>)
       \o << Tip("advanced_tip", 0) >>,
       << Tip("aggressive_growth", analysis.balance),
          Tip("emergency_fund", analysis.total_expenses * 6),
          Tip("equity_sip", 5000), Tip("ppf", 12500), Tip("direct_stocks", 10000),
          Tip("reit", 0), Tip("term_insurance", 0) >>)

good_tips(analysis) ==
  LET spending == analysis.spending
      total_income == analysis.total_income
      total_spending == SumValues(spending)
      top == top_category(spending)
  IN Tips(
       << Tip("strong_finances", analysis.balance), Tip("ahead_of_70", 0) >>
       \o When(total_spending > 0 /\ spending[top] * 100 > total_income * 15,
               << [ tag |-> "optimization", amount |-> spending[top], category |-> top ],
                  Tip("optimization_saves", spending[top] * 10) >>)
       \o << Tip("advanced_tip", 0) >>,
       << Tip("aggressive_growth", analysis.balance),
          Tip("emergency_fund", analysis.total_expenses * 6),
          Tip("equity_sip", 5000), Tip("ppf", 12500), Tip("direct_stocks", 10000),
          Tip("reit", 0), Tip("term_insurance", 0) >>)

excellent_tips(analysis) ==
  Tips(
    << Tip("outstanding", analysis.balance), Tip("top_5", 0), Tip("maintain", 0),
       Tip("keep_tracking", 0), Tip("review_quarterly", 0), Tip("share", 0) >>,
    << Tip("wealth_building", analysis.balance), Tip("portfolio_mix", 0),
       Tip("equity", analysis.balance * 60), Tip("debt", analysis.balance * 20),
       Tip("gold", analysis.balance * 10), Tip("international", analysis.balance * 10),
       Tip("long_term_goals", 0), Tip("real_estate", 0), Tip("retirement", 5000),
       Tip("education_fund", 0), Tip("insurance", 0) >>)

generate_suggestions(prediction, analysis) ==
  CASE prediction = 0 -> critical_tips(analysis)
    [] prediction = 1 -> needs_improvement_tips(analysis)
    [] prediction = 2 -> moderate_tips(analysis)
    [] prediction = 3 -> good_tips(analysis)
    [] OTHER -> excellent_tips(analysis)

get_profile_name(prediction) ==
  CASE prediction = 0 -> "Critical - Immediate Action Required"
    [] prediction = 1 -> "Needs Improvement"
    [] prediction = 2 -> "Moderate Budgeting"
    [] prediction = 3 -> "Good Financial Health"
    [] prediction = 4 -> "Excellent Budgeting"
    [] OTHER -> "Unknown"

(***************************************************************************)
(* State.  model, is_trained: the fields of the single BudgetAI instance   *)
(* budget_ai; artifact: the content of the file at model_path; pc, call,   *)
(* result: each caller's position in train_model / predict_and_suggest,    *)
(* its arguments (with train_returned as it was when the call was made)    *)
(* and what the call gave back; train_returned: a                          *)
(* train_model call has returned True since the process started;           *)
(* restarts: number of process restarts so far; a_transactions, a_result:  *)
(* arguments and result of analyze_spending applied on its own;            *)
(* suggestions: a tier and what generate_suggestions returns for it and    *)
(* a_result; response: the last endpoint served, what predict_and_suggest  *)
(* gave it and the JSON payload it returned.                               *)
(***************************************************************************)
VARIABLES model, is_trained, artifact, pc, call, result, train_returned, restarts,
          a_transactions, a_result, suggestions, response

vars == << model, is_trained, artifact, pc, call, result, train_returned, restarts,
           a_transactions, a_result, suggestions, response >>

instance_vars == << model, is_trained, artifact, pc, call, result, train_returned, restarts >>
analysis_vars == << a_transactions, a_result, suggestions >>

(***************************************************************************)
(* The requests callers make.  ai_ml_suggestion calls predict_and_suggest  *)
(* for a non-empty list only, with the totals it computes from the list    *)
(* (src/app.py 296-307); predict_and_suggest itself accepts any arguments, *)
(* an empty list with non-zero totals included.                            *)
(***************************************************************************)
TxLists ==
  { << Tx("expense", "Food", 150) >>,
    << Tx("income", "Salary", 200), Tx("expense", "Food", 50) >> }

Request(transactions, total_income, total_expenses) ==
  [ transactions |-> transactions, total_income |-> total_income,
    total_expenses |-> total_expenses ]

Requests ==
  { Request(txs, SumAmounts(txs, "income"), SumAmounts(txs, "expense")) : txs \in TxLists }
  \cup { Request(<<>>, 200, 50) }

Returned(success, error, prediction) ==
  [ raised |-> NoError, success |-> success, error |-> error, prediction |-> prediction ]

Raised(exception) ==
  [ raised |-> exception, success |-> FALSE, error |-> NoError, prediction |-> -1 ]

Init ==
  /\ model = None
  /\ is_trained = FALSE
  /\ artifact = Absent
  /\ pc = [ t \in Callers |-> "idle" ]
  /\ call = [ t \in Callers |-> None ]
  /\ result = [ t \in Callers |-> None ]
  /\ train_returned = FALSE
  /\ restarts = 0
  /\ a_transactions = <<>>
  /\ a_result = None
  /\ suggestions = None
  /\ response = None

Finish(t, r) ==
  /\ pc' = [ pc EXCEPT ![t] = "done" ]
  /\ result' = [ result EXCEPT ![t] = r ]

Goto(t, label) ==
  /\ pc' = [ pc EXCEPT ![t] = label ]
  /\ UNCHANGED result

(***************************************************************************)
(* train_model, statement by statement.                                    *)
(***************************************************************************)
(* called from idle; create_training_data is local to the caller *)
train_model_new(t) ==
  /\ pc[t] = "idle"
  /\ model' = NewForest
  /\ Goto(t, "tm_fit")
  /\ call' = [ call EXCEPT ![t] = [ op |-> "train_model" ] ]
  /\ UNCHANGED << is_trained, artifact, train_returned, restarts, analysis_vars, response >>

train_model_fit(t) ==
  /\ pc[t] = "tm_fit"
  /\ model' = Fit(model)
  /\ Goto(t, "sm_open")
  /\ UNCHANGED << is_trained, artifact, call, train_returned, restarts, analysis_vars, response >>

(* save_model: open(model_path, 'wb') truncates the file, or raises OSError *)
save_model_open(t) ==
  /\ pc[t] = "sm_open"
  /\ \/ /\ artifact' = File(<<>>)
        /\ Goto(t, "sm_dump")
     \/ /\ UNCHANGED artifact
        /\ Finish(t, Raised("OSError"))
  /\ UNCHANGED << model, is_trained, call, train_returned, restarts, analysis_vars, response >>

(* save_model: pickle.dump(self.model, f) writes the model that self.model *)
(* names now; a failed write leaves the part written so far.               *)
save_model_dump(t) ==
  /\ pc[t] = "sm_dump"
  /\ \/ /\ artifact' = File(Dumps(model))
        /\ Goto(t, "tm_set")
     \/ /\ artifact' = File(SubSeq(Dumps(model), 1, HeaderLen - 1))
        /\ Finish(t, Raised("OSError"))
  /\ UNCHANGED << model, is_trained, call, train_returned, restarts, analysis_vars, response >>

train_model_set(t) ==
  /\ pc[t] = "tm_set"
  /\ is_trained' = TRUE
  /\ train_returned' = TRUE
  /\ Finish(t, Returned(TRUE, NoError, -1))
  /\ UNCHANGED << model, artifact, call, restarts, analysis_vars, response >>

(***************************************************************************)
(* predict_and_suggest, statement by statement, with load_model inlined    *)
(* where it is called.                                                     *)
(***************************************************************************)
(* the two precondition checks in the opposite order *)
predict_check_trained_ListFirst(t, req) ==
  /\ pc[t] = "idle"
  /\ IF Len(req.transactions) = 0
     THEN Finish(t, Returned(FALSE, "NoTransactions", -1))
     ELSE IF is_trained THEN Goto(t, "ps_len") ELSE Goto(t, "lm_exists")
  /\ call' = [ call EXCEPT ![t] =
                 [ op |-> "predict_and_suggest", request |-> req,
                   after_train |-> train_returned ] ]
  /\ UNCHANGED << model, is_trained, artifact, train_returned, restarts, analysis_vars, response >>

(* called from idle with the request's arguments: if not self.is_trained *)
predict_check_trained(t, req) ==
  /\ pc[t] = "idle"
  /\ IF is_trained THEN Goto(t, "ps_len") ELSE Goto(t, "lm_exists")
  /\ call' = [ call EXCEPT ![t] =
                 [ op |-> "predict_and_suggest", request |-> req,
                   after_train |-> train_returned ] ]
  /\ UNCHANGED << model, is_trained, artifact, train_returned, restarts, analysis_vars, response >>

(* load_model reporting True although there is no file *)
load_model_exists_AlwaysTrue(t) ==
  /\ pc[t] = "lm_exists"
  /\ IF artifact.exists THEN Goto(t, "lm_read") ELSE Goto(t, "ps_len")
  /\ UNCHANGED << model, is_trained, artifact, call, train_returned, restarts, analysis_vars, response >>

load_model_exists(t) ==
  /\ pc[t] = "lm_exists"
  /\ IF artifact.exists
     THEN Goto(t, "lm_read")
     ELSE Finish(t, Returned(FALSE, "ModelNotTrained", -1))
  /\ UNCHANGED << model, is_trained, artifact, call, train_returned, restarts, analysis_vars, response >>

load_model_read(t) ==
  /\ pc[t] = "lm_read"
  /\ IF WellFormed(artifact.bytes)
     THEN /\ model' = Loads(artifact.bytes)
          /\ Goto(t, "lm_set")
     ELSE /\ UNCHANGED model
          /\ Finish(t, Raised("UnpicklingError"))
  /\ UNCHANGED << is_trained, artifact, call, train_returned, restarts, analysis_vars, response >>

load_model_set(t) ==
  /\ pc[t] = "lm_set"
  /\ is_trained' = TRUE
  /\ Goto(t, "ps_len")
  /\ UNCHANGED << model, artifact, call, train_returned, restarts, analysis_vars, response >>

(* predict_and_suggest without the length check *)
predict_check_transactions_NoCheck(t) ==
  /\ pc[t] = "ps_len"
  /\ Goto(t, "ps_predict")
  /\ UNCHANGED << model, is_trained, artifact, call, train_returned, restarts, analysis_vars, response >>

predict_check_transactions(t) ==
  /\ pc[t] = "ps_len"
  /\ IF Len(call[t].request.transactions) = 0
     THEN Finish(t, Returned(FALSE, "NoTransactions", -1))
     ELSE Goto(t, "ps_predict")
  /\ UNCHANGED << model, is_trained, artifact, call, train_returned, restarts, analysis_vars, response >>

predict_classify(t) ==
  /\ pc[t] = "ps_predict"
  /\ LET req == call[t].request
         analysis == analyze_spending(req.transactions, req.total_income, req.total_expenses)
         prediction == Predict(model, Features(analysis))
     IN Finish(t, IF model = None THEN Raised("AttributeError")
                  ELSE IF ~IsFitted(model) THEN Raised("NotFittedError")
                  ELSE IF SuggestionsRaise(prediction, analysis)
                       THEN Raised("ZeroDivisionError")
                  ELSE Returned(TRUE, NoError, prediction))
  /\ UNCHANGED << model, is_trained, artifact, call, train_returned, restarts, analysis_vars, response >>

(* the caller takes the result and is free to call again *)
Return(t) ==
  /\ pc[t] = "done"
  /\ pc' = [ pc EXCEPT ![t] = "idle" ]
  /\ call' = [ call EXCEPT ![t] = None ]
  /\ result' = [ result EXCEPT ![t] = None ]
  /\ UNCHANGED << model, is_trained, artifact, train_returned, restarts, analysis_vars, response >>

(***************************************************************************)
(* The process stops at any point and a new one starts: BudgetAI.__init__  *)
(* runs again, the artifact stays as the old process left it.              *)
(***************************************************************************)
Restart ==
  /\ restarts < MaxRestarts
  /\ restarts' = restarts + 1
  /\ model' = None
  /\ is_trained' = FALSE
  /\ pc' = [ t \in Callers |-> "idle" ]
  /\ call' = [ t \in Callers |-> None ]
  /\ result' = [ t \in Callers |-> None ]
  /\ train_returned' = FALSE
  /\ UNCHANGED << artifact, analysis_vars, response >>

Next ==
  \/ \E t \in Callers : train_model_new(t)
  \/ \E t \in Callers : train_model_fit(t)
  \/ \E t \in Callers : save_model_open(t)
  \/ \E t \in Callers : save_model_dump(t)
  \/ \E t \in Callers : train_model_set(t)
  \/ \E t \in Callers, req \in Requests : predict_check_trained(t, req)
  \/ \E t \in Callers : load_model_exists(t)
  \/ \E t \in Callers : load_model_read(t)
  \/ \E t \in Callers : load_model_set(t)
  \/ \E t \in Callers : predict_check_transactions(t)
  \/ \E t \in Callers : predict_classify(t)
  \/ \E t \in Callers : Return(t)
  \/ Restart

Spec == Init /\ [][Next]_vars

(***************************************************************************)
(* analyze_spending applied on its own: a transaction list is built up and *)
(* the function is called either with the totals ai_ml_suggestion computes *)
(* from the list or with totals the caller chooses; generate_suggestions   *)
(* is then applied to the analysis for each tier.                          *)
(***************************************************************************)
TxPool ==
  { Tx("income", "Salary", 100), Tx("expense", "Food", 30), Tx("expense", "Transport", 20),
    Tx("expense", "Rent", 50), Tx("expense", "Other", 10),
    Tx("expense", "Entertainment", 15), Tx("expense", "Shopping", 20) }

Totals == { -50, 0, 50, 100, 200 }

AnalysisInit ==
  /\ model = None
  /\ is_trained = FALSE
  /\ artifact = Absent
  /\ pc = [ t \in Callers |-> "idle" ]
  /\ call = [ t \in Callers |-> None ]
  /\ result = [ t \in Callers |-> None ]
  /\ train_returned = FALSE
  /\ restarts = 0
  /\ a_transactions = <<>>
  /\ a_result = None
  /\ suggestions = None
  /\ response = None

AddTransaction(tx) ==
  /\ Len(a_transactions) < MaxTx
  /\ a_transactions' = Append(a_transactions, tx)
  /\ a_result' = None
  /\ suggestions' = None
  /\ UNCHANGED << instance_vars, response >>

AnalyzeFromApp ==
  /\ a_result' = analyze_spending(a_transactions, SumAmounts(a_transactions, "income"),
                                  SumAmounts(a_transactions, "expense"))
  /\ suggestions' = None
  /\ UNCHANGED << a_transactions, instance_vars, response >>

AnalyzeDirect(total_income, total_expenses) ==
  /\ a_result' = analyze_spending(a_transactions, total_income, total_expenses)
  /\ suggestions' = None
  /\ UNCHANGED << a_transactions, instance_vars, response >>

(* generate_suggestions(prediction, analysis) on an analysis just computed *)
Tiers == 0..4

GenerateSuggestions(prediction) ==
  /\ a_result # None
  /\ suggestions' = [ prediction |-> prediction,
                      tips |-> generate_suggestions(prediction, a_result) ]
  /\ UNCHANGED << a_transactions, a_result, instance_vars, response >>

AnalysisNext ==
  \/ \E tx \in TxPool : AddTransaction(tx)
  \/ AnalyzeFromApp
  \/ \E i \in Totals, e \in Totals : AnalyzeDirect(i, e)
  \/ \E prediction \in Tiers : GenerateSuggestions(prediction)

SpecAnalysis == AnalysisInit /\ [][AnalysisNext]_vars

(***************************************************************************)
(* The endpoints of src/app.py, one request at a time: each handler runs   *)
(* from its first statement to the payload it returns, the calls it makes  *)
(* on budget_ai included.  self is the pair of fields of budget_ai, file   *)
(* the artifact; an outcome is the instance after the call, the exception  *)
(* that left the call (NoError if none) and the value returned.            *)
(***************************************************************************)
Self(m, trained) == [ model |-> m, is_trained |-> trained ]

Outcome(self, exception, value) == [ self |-> self, raised |-> exception, value |-> value ]

load_model(self, file) ==
  IF file.exists
  THEN IF WellFormed(file.bytes)
       THEN Outcome(Self(Loads(file.bytes), TRUE), NoError, TRUE)
       ELSE Outcome(self, "UnpicklingError", FALSE)
  ELSE Outcome(self, NoError, FALSE)

predict_and_suggest(self, file, transactions, total_income, total_expenses) ==
  LET loaded == IF self.is_trained THEN Outcome(self, NoError, TRUE) ELSE load_model(self, file)
      analysis == analyze_spending(transactions, total_income, total_expenses)
      prediction == Predict(loaded.self.model, Features(analysis))
      tips == generate_suggestions(prediction, analysis)
  IN IF loaded.raised # NoError THEN Outcome(loaded.self, loaded.raised, None)
     ELSE IF ~loaded.value
       THEN Outcome(loaded.self, NoError, [ success |-> FALSE, error |-> "ModelNotTrained" ])
     ELSE IF Len(transactions) = 0
       THEN Outcome(loaded.self, NoError, [ success |-> FALSE, error |-> "NoTransactions" ])
     ELSE IF loaded.self.model = None THEN Outcome(loaded.self, "AttributeError", None)
     ELSE IF ~IsFitted(loaded.self.model) THEN Outcome(loaded.self, "NotFittedError", None)
     ELSE IF tips.raised # NoError THEN Outcome(loaded.self, tips.raised, None)
     ELSE Outcome(loaded.self, NoError,
                  [ success |-> TRUE,
                    prediction |-> prediction,
                    profile |-> get_profile_name(prediction),
                    suggestions |-> [ savings |-> tips.savings, investment |-> tips.investment ],
                    analysis |-> analysis ])

(* the two branches by which a handler hands on a failure *)
Failure(outcome) ==
  IF outcome.raised # NoError
  THEN [ success |-> FALSE, error |-> outcome.raised ]
  ELSE outcome.value

Response(endpoint, called, outcome, payload) ==
  [ endpoint |-> endpoint, called |-> called, outcome |-> outcome, payload |-> payload ]

Serve(endpoint, outcome, payload) ==
  /\ model' = outcome.self.model
  /\ is_trained' = outcome.self.is_trained
  /\ response' = Response(endpoint, TRUE, outcome, payload)

NoneFound(endpoint) ==
  /\ response' = Response(endpoint, FALSE, None,
                          [ success |-> FALSE, error |-> "NoTransactionsFound" ])
  /\ UNCHANGED << model, is_trained >>

(* train_ai_model: train_model with save_model writing the file, failing   *)
(* to open it or failing while it writes                                   *)
SaveOutcomes == { "saved", "open_raises", "dump_raises" }

train_ai_model(save) ==
  LET fitted == Fit(NewForest)
  IN /\ artifact' = CASE save = "saved" -> File(Dumps(fitted))
                      [] save = "open_raises" -> artifact
                      [] OTHER -> File(SubSeq(Dumps(fitted), 1, HeaderLen - 1))
     /\ IF save = "saved"
        THEN Serve("train_ai_model", Outcome(Self(fitted, TRUE), NoError, TRUE),
                   [ success |-> TRUE, message |-> "trained" ])
        ELSE Serve("train_ai_model", Outcome(Self(fitted, is_trained), "OSError", FALSE),
                   [ success |-> FALSE, error |-> "OSError" ])
     /\ train_returned' = (train_returned \/ save = "saved")
     /\ UNCHANGED << pc, call, result, restarts, analysis_vars >>

ai_ml_suggestion ==
  /\ IF a_transactions = <<>>
     THEN NoneFound("ai_ml_suggestion")
     ELSE LET outcome == predict_and_suggest(Self(model, is_trained), artifact, a_transactions,
                                             SumAmounts(a_transactions, "income"),
                                             SumAmounts(a_transactions, "expense"))
              value == outcome.value
          IN Serve("ai_ml_suggestion", outcome,
                   IF outcome.raised # NoError \/ ~value.success
                   THEN Failure(outcome)
                   ELSE [ success |-> TRUE,
                          suggestion |-> [ profile |-> value.profile,
                                           savings |-> value.suggestions.savings,
                                           investment |-> value.suggestions.investment ],
                          profile |-> value.profile,
                          prediction |-> value.prediction ])
  /\ UNCHANGED << artifact, pc, call, result, train_returned, restarts, analysis_vars >>

(* the response text reads result['analysis']['percentages']['savings_pct'] *)
ai_ml_investment ==
  /\ IF a_transactions = <<>>
     THEN NoneFound("ai_ml_investment")
     ELSE LET outcome == predict_and_suggest(Self(model, is_trained), artifact, a_transactions,
                                             SumAmounts(a_transactions, "income"),
                                             SumAmounts(a_transactions, "expense"))
              value == outcome.value
          IN Serve("ai_ml_investment", outcome,
                   IF outcome.raised # NoError \/ ~value.success
                   THEN Failure(outcome)
                   ELSE IF "percentages" \notin DOMAIN value.analysis
                   THEN [ success |-> FALSE, error |-> "KeyError" ]
                   ELSE [ success |-> TRUE,
                          suggestion |-> [ profile |-> value.profile,
                                           balance |-> value.analysis.balance,
                                           savings_pct |-> value.analysis.percentages.savings_pct,
                                           investment |-> value.suggestions.investment,
                                           savings |-> SubSeq(value.suggestions.savings, 1, 2) ] ])
  /\ UNCHANGED << artifact, pc, call, result, train_returned, restarts, analysis_vars >>

(* a transaction is stored for the user (add_transaction) *)
StoreTransaction(tx) ==
  /\ Len(a_transactions) < MaxTx
  /\ a_transactions' = Append(a_transactions, tx)
  /\ UNCHANGED << instance_vars, a_result, suggestions, response >>

EndpointsNext ==
  \/ \E tx \in TxPool : StoreTransaction(tx)
  \/ \E save \in SaveOutcomes : train_ai_model(save)
  \/ ai_ml_suggestion
  \/ ai_ml_investment
  \/ Restart

SpecEndpoints == Init /\ [][EndpointsNext]_vars

(***************************************************************************)
(* Properties.                                                             *)
(***************************************************************************)
IsPredict(t) == call[t] # None /\ call[t].op = "predict_and_suggest"
IsTrain(t) == call[t] # None /\ call[t].op = "train_model"
EmptyList(t) == IsPredict(t) /\ Len(call[t].request.transactions) = 0

(* caller t executes the statement at label from in this step *)
Executes(t, from) == pc[t] = from /\ pc'[t] # from /\ restarts' = restarts

ModelNotTrained == Returned(FALSE, "ModelNotTrained", -1)
NoTransactions == Returned(FALSE, "NoTransactions", -1)

SampleFeatures == { X_train[i] : i \in 1..Len(X_train) } \cup { <<-100, 0, 0, 0, 100>> }

(* C1: model.predict always runs on a fully fitted model: no caller is at   *)
(* the model.predict statement while self.model is None or assigned but not *)
(* yet fitted.                                                              *)
C1_PredictUsesFittedModel ==
  \A t \in Callers : pc[t] = "ps_predict" => IsFitted(model)

(* C2: at every point the artifact is either absent or holds a complete     *)
(* serialized model, so whoever opens it never sees a half-written file.    *)
C2_ArtifactAbsentOrComplete ==
  artifact.exists => WellFormed(artifact.bytes)

(* C3: once is_trained is true, a predict_and_suggest call made from then   *)
(* on never enters load_model, and self.model changes only by the           *)
(* statements of train_model.                                               *)
C3_ReusedOnceTrained ==
  [][ (is_trained /\ restarts' = restarts) =>
        /\ \A t \in Callers :
             pc[t] = "idle" => pc'[t] \notin { "lm_exists", "lm_read", "lm_set" }
        /\ (model' # model => \E t \in Callers : Executes(t, "idle") \/ Executes(t, "tm_fit"))
    ]_vars

(* C4 as stated: a predict_and_suggest call that finds the classifier       *)
(* untrained and no artifact returns ModelNotTrained and leaves             *)
(* is_trained false and no model in memory.                                 *)
C4_NotTrainedLeavesNoModel ==
  [][ \A t \in Callers :
        (Executes(t, "lm_exists") /\ ~artifact.exists) =>
          /\ result'[t] = ModelNotTrained
          /\ ~is_trained'
          /\ model' = None ]_vars

(* C4 amended: a predict_and_suggest call that finds is_trained false and   *)
(* no artifact file returns ModelNotTrained whatever its transaction list   *)
(* and totals, and changes neither is_trained (false) nor self.model.       *)
C4_NotTrainedNoArtifact ==
  [][ \A t \in Callers :
        (Executes(t, "lm_exists") /\ ~artifact.exists) =>
          /\ pc'[t] = "done"
          /\ result'[t] = ModelNotTrained
          /\ ~is_trained /\ ~is_trained'
          /\ model' = model ]_vars

C4_Witness ==
  \E t \in Callers :
    /\ pc[t] = "done" /\ IsPredict(t) /\ result[t] = ModelNotTrained
    /\ Len(call[t].request.transactions) > 0
    /\ ~is_trained /\ model = None /\ ~artifact.exists

(* C5 as stated: predict_and_suggest with an empty transaction list         *)
(* returns NoTransactions.                                                  *)
C5_EmptyListIsNoTransactions ==
  \A t \in Callers :
    (pc[t] = "done" /\ EmptyList(t)) => result[t] = NoTransactions

(* C5 amended: predict_and_suggest with an empty transaction list never     *)
(* reaches model.predict and never succeeds; it returns NoTransactions      *)
(* unless the trained-or-loadable check fails first (ModelNotTrained, or    *)
(* the exception of pickle.load).                                           *)
C5_EmptyListNeverClassified ==
  \A t \in Callers :
    EmptyList(t) =>
      /\ pc[t] # "ps_predict"
      /\ pc[t] = "done" =>
           \/ result[t] = NoTransactions
           \/ result[t] = ModelNotTrained
           \/ result[t] = Raised("UnpicklingError")

C5_Witness ==
  \E t \in Callers :
    /\ pc[t] = "done" /\ EmptyList(t) /\ result[t] = NoTransactions
    /\ call[t].request.total_income > 0

(* C6: the trained-or-loadable check comes before the length check: a call  *)
(* with an empty list that finds no artifact ends with ModelNotTrained, and *)
(* NoTransactions is produced only by the length check, with is_trained     *)
(* true and a model in memory.                                              *)
C6_ChecksInOrder ==
  [][ \A t \in Callers :
        /\ (Executes(t, "lm_exists") /\ ~artifact.exists /\ EmptyList(t))
             => result'[t] = ModelNotTrained
        /\ (result'[t] # result[t] /\ result'[t] = NoTransactions)
             => (pc[t] = "ps_len" /\ is_trained /\ model # None) ]_vars

C6_Witness ==
  \E t \in Callers :
    /\ pc[t] = "done" /\ EmptyList(t) /\ result[t] = ModelNotTrained
    /\ ~is_trained /\ ~artifact.exists

(* C7: a predict_and_suggest call with a non-empty list that starts after   *)
(* a train_model call has returned ends with success = true.                *)
C7_SucceedsAfterTrain ==
  \A t \in Callers :
    (/\ pc[t] = "done" /\ IsPredict(t)
     /\ call[t].after_train
     /\ Len(call[t].request.transactions) > 0) => result[t].success

(* C8: predict_and_suggest returns every error as a failure result; with a  *)
(* corrupt artifact it returns the failure kind SerializationError and      *)
(* raises nothing.                                                          *)
C8_CorruptArtifactIsReturned ==
  [][ \A t \in Callers :
        (Executes(t, "lm_read") /\ ~WellFormed(artifact.bytes)) =>
          /\ result'[t] = Returned(FALSE, "SerializationError", -1)
          /\ ~is_trained' ]_vars

(* C9: once train_model has returned, and while no other train_model call   *)
(* is writing the file, the model a fresh process loads from the artifact   *)
(* is fitted and predicts, for every feature vector, the tier the trained   *)
(* model predicts.                                                          *)
C9_RoundTripSameTier ==
  (/\ \E t \in Callers : pc[t] = "done" /\ IsTrain(t) /\ result[t].success
   /\ \A t \in Callers : pc[t] \notin { "sm_dump", "tm_set" })
  => /\ artifact.exists /\ WellFormed(artifact.bytes)
     /\ IsFitted(Loads(artifact.bytes))
     /\ \A fv \in SampleFeatures :
          Predict(Loads(artifact.bytes), fv) = Predict(Fit(NewForest), fv)

(* C10 as stated: for total_income > 0 the breakdown has the 8 categories   *)
(* and its values sum to the total_expenses argument.                       *)
C10_BreakdownSumsToArgument ==
  (a_result # None /\ a_result.total_income > 0) =>
    /\ DOMAIN a_result.spending = Categories
    /\ SumValues(a_result.spending) = a_result.total_expenses

(* C10 amended: for total_income > 0 the breakdown has the 8 categories    *)
(* and its values sum to the expense amounts of the list, unrecognised      *)
(* categories counted under Other; so they sum to total_expenses exactly    *)
(* when that argument is the list's expense total, as ai_ml_suggestion      *)
(* computes it.                                                             *)
C10_BreakdownSumsToExpenses ==
  (a_result # None /\ a_result.total_income > 0) =>
    /\ DOMAIN a_result.spending = Categories
    /\ SumValues(a_result.spending) = SumAmounts(a_transactions, "expense")

C10_Witness ==
  /\ a_result # None
  /\ a_result.total_income > 0
  /\ a_result.total_expenses = SumAmounts(a_transactions, "expense")
  /\ \E i \in 1..Len(a_transactions) :
       a_transactions[i].type = "expense" /\ a_transactions[i].category \notin Categories
  /\ a_result.spending["Other"] > 0

(* C11: when total_income <= 0, analyze_spending returns savings_rate -100, *)
(* expense_ratio 100 and food_pct, transport_pct, entertainment_pct 0,      *)
(* whatever the transaction list and total_expenses are.                    *)
C11_NoIncomeFallback ==
  (a_result # None /\ a_result.total_income <= 0) =>
    /\ a_result.savings_rate = -100
    /\ a_result.expense_ratio = 100
    /\ a_result.food_pct = 0
    /\ a_result.transport_pct = 0
    /\ a_result.entertainment_pct = 0

C11_Witness ==
  /\ a_result # None
  /\ a_result.total_income <= 0
  /\ a_result.total_expenses > 0
  /\ a_result.spending["Food"] > 0
  /\ a_result.spending["Transport"] > 0

(* the tips of a list that carry a tag *)
TipsTagged(tips, tag) == { i \in 1..Len(tips) : tips[i].tag = tag }

HasTip(tips, tag) == TipsTagged(tips, tag) # {}

Suggested(prediction) ==
  /\ suggestions # None
  /\ suggestions.prediction = prediction

(* C12: for tier 0 generate_suggestions returns a goal line whose amount   *)
(* is abs(balance); the Food line is there exactly when spending['Food']   *)
(* is strictly above 30% of total_income, and the Entertainment, Shopping  *)
(* and Transport lines exactly when theirs is strictly above 15% of it.    *)
C12_CriticalGoalAndThresholds ==
  Suggested(0) =>
    LET savings == suggestions.tips.savings
        spending == a_result.spending
        total_income == a_result.total_income
    IN /\ suggestions.tips.raised = NoError
       /\ \E i \in 1..Len(savings) : savings[i] = Tip("goal", Abs(a_result.balance))
       /\ HasTip(savings, "food") <=> spending["Food"] * 100 > total_income * 30
       /\ HasTip(savings, "entertainment")
            <=> spending["Entertainment"] * 100 > total_income * 15
       /\ HasTip(savings, "shopping") <=> spending["Shopping"] * 100 > total_income * 15
       /\ HasTip(savings, "transport") <=> spending["Transport"] * 100 > total_income * 15

(* tier 0 on a negative balance with Food exactly at 30% of the income     *)
(* (no line) and Shopping above 15% of it (a line)                         *)
C12_Witness ==
  /\ Suggested(0)
  /\ a_result.balance < 0
  /\ a_result.total_income > 0
  /\ a_result.spending["Food"] * 100 = a_result.total_income * 30
  /\ ~HasTip(suggestions.tips.savings, "food")
  /\ HasTip(suggestions.tips.savings, "shopping")
  /\ HasTip(suggestions.tips.savings, "goal")

(* C13: for tier 3 generate_suggestions names at most one category, one    *)
(* whose spending is >= that of every category of the breakdown; the       *)
(* optimization line naming it and the line with 10% of its amount are     *)
(* returned exactly when the total spending is > 0 and that amount is      *)
(* strictly above 15% of total_income.                                     *)
C13_GoodOptimizesTopCategory ==
  Suggested(3) =>
    LET savings == suggestions.tips.savings
        spending == a_result.spending
        named == TipsTagged(savings, "optimization")
        estimates == TipsTagged(savings, "optimization_saves")
        highest == SetMax({ spending[c] : c \in DOMAIN spending })
        emitted == SumValues(spending) > 0 /\ highest * 100 > a_result.total_income * 15
    IN /\ suggestions.tips.raised = NoError
       /\ Cardinality(named) = (IF emitted THEN 1 ELSE 0)
       /\ Cardinality(estimates) = (IF emitted THEN 1 ELSE 0)
       /\ \A i \in named :
            /\ savings[i].category \in DOMAIN spending
            /\ spending[savings[i].category] = highest
            /\ savings[i].amount = highest
            /\ savings[i + 1] = Tip("optimization_saves", highest * 10)

(* tier 3 with two categories of different spending, the larger one above  *)
(* 15% of the income: the optimization line is returned                    *)
C13_Witness ==
  /\ Suggested(3)
  /\ a_result.total_income > 0
  /\ \E c, d \in Categories : 0 < a_result.spending[c] /\ a_result.spending[c] < a_result.spending[d]
  /\ HasTip(suggestions.tips.savings, "optimization")

(* C15: generate_suggestions returns the two lists without raising for     *)
(* every tier 0..4 and every analysis analyze_spending produces, one with  *)
(* total_income = 0 and non-zero category spending included.               *)
C15_SuggestionsNeverRaise ==
  suggestions # None => suggestions.tips.raised = NoError

Answered(endpoint) ==
  /\ response # None
  /\ response.endpoint = endpoint

OrchestratorSucceeded ==
  /\ response.called
  /\ response.outcome.raised = NoError
  /\ response.outcome.value.success

(* C14: whenever predict_and_suggest returned success = true for the       *)
(* user's transactions, ai_ml_suggestion and ai_ml_investment each return  *)
(* a payload with success = true; a payload with success = false is        *)
(* returned only when the orchestrator failed or there are no              *)
(* transactions.                                                           *)
C14_EndpointsAnswerWithResult ==
  (Answered("ai_ml_suggestion") \/ Answered("ai_ml_investment")) =>
    (response.payload.success <=> OrchestratorSucceeded)

(* every call made so far has completed or failed *)
Quiescent == \A t \in Callers : pc[t] \in { "idle", "done" }

(* C16: on one BudgetAI instance, once every train_model, load_model and   *)
(* predict_and_suggest call made has completed or failed (a save_model     *)
(* that raised and a load_model that found no artifact included),          *)
(* is_trained implies that model is a fitted classifier, never None; and   *)
(* is_trained never goes from true back to false.                          *)
C16_TrainedMeansFitted ==
  [][ /\ (Quiescent' /\ is_trained') => IsFitted(model')
      /\ (is_trained /\ restarts' = restarts) => is_trained' ]_vars
====
